---- MODULE Spec2Model ----
(***************************************************************************)
(* Mini-Brevo (src/app.py): contact store, campaign store, send log,       *)
(* delivery adapter and the test/bulk dispatch workflow driven by the      *)
(* Streamlit pages.                                                        *)
(*                                                                         *)
(* Text that the program processes character by character (names, emails, *)
(* tags, subjects, bodies, environment values) is a sequence of            *)
(* one-character strings.  The fixed texts the program only passes along   *)
(* (status, error detail) are TLA+ strings.  Timestamps (created_at,       *)
(* sent_at) are not modelled: no operation reads them.  Of the messages a  *)
(* page shows, only the counts of the bulk send are kept (report); every   *)
(* other script run redraws the page without them.                         *)
(***************************************************************************)
EXTENDS Integers, Sequences, FiniteSets, TLC

(***************************************************************************)
(* Bounds of the model.                                                    *)
(***************************************************************************)
MaxContacts == 2
MaxCampaigns == 1
MaxSends == 2
MaxPieces == 3

(***************************************************************************)
(* Python values.                                                          *)
(***************************************************************************)
\* None: no text is this value, since every element of a text is one character.
None == <<"None">>
\* A float NaN cell of a DataFrame (an empty CSV cell).
NaN == <<"NaN">>
\* SQL NULL in an INTEGER column; AUTOINCREMENT ids start at 1.
NULL == 0

Truthy(v) == v /= None /\ v /= <<>>

\* str(x) as bulk_import_contacts uses it on a cell.
Str(v) == IF v = NaN THEN <<"n", "a", "n">> ELSE v

Whitespace == {" ", "\t", "\n", "\r"}

UpperChars == <<"A","B","C","D","E","F","G","H","I","J","K","L","M",
                "N","O","P","Q","R","S","T","U","V","W","X","Y","Z">>
LowerChars == <<"a","b","c","d","e","f","g","h","i","j","k","l","m",
                "n","o","p","q","r","s","t","u","v","w","x","y","z">>

LowerChar(c) ==
    IF \E k \in 1..26 : UpperChars[k] = c
    THEN LowerChars[CHOOSE k \in 1..26 : UpperChars[k] = c]
    ELSE c

\* str.lower()
Lower(s) == [k \in 1..Len(s) |-> LowerChar(s[k])]

RECURSIVE LStrip(_)
LStrip(s) ==
    IF s /= <<>> /\ s[1] \in Whitespace THEN LStrip(Tail(s)) ELSE s

RECURSIVE RStrip(_)
RStrip(s) ==
    IF s /= <<>> /\ s[Len(s)] \in Whitespace
    THEN RStrip(SubSeq(s, 1, Len(s) - 1))
    ELSE s

\* str.strip()
Strip(s) == RStrip(LStrip(s))

StartsWith(s, old) == Len(s) >= Len(old) /\ SubSeq(s, 1, Len(old)) = old

\* str.replace(old, new) for a non-empty old: left to right, non-overlapping,
\* the text put in is not scanned again.
RECURSIVE ReplaceFirstOnly(_, _, _)
ReplaceFirstOnly(s, old, new) ==
    IF Len(s) < Len(old) THEN s
    ELSE IF StartsWith(s, old)
         THEN new \o SubSeq(s, Len(old) + 1, Len(s))
         ELSE <<s[1]>> \o ReplaceFirstOnly(Tail(s), old, new)

RECURSIVE Replace(_, _, _)
Replace(s, old, new) ==
    IF Len(s) < Len(old) THEN s
    ELSE IF StartsWith(s, old)
         THEN new \o Replace(SubSeq(s, Len(old) + 1, Len(s)), old, new)
         ELSE <<s[1]>> \o Replace(Tail(s), old, new)

\* The places where old occurs in s.
Occurrences(s, old) ==
    {k \in 1..Len(s) : StartsWith(SubSeq(s, k, Len(s)), old)}

Token == <<"{", "{", "n", "a", "m", "e", "}", "}">>

\* campaign.body.replace("{{name}}", name)
Render(body, name) == Replace(body, Token, name)

Reverse(s) == [k \in 1..Len(s) |-> s[Len(s) + 1 - k]]

Last(s) == s[Len(s)]

RECURSIVE MaxId(_)
MaxId(rows) == IF rows = <<>> THEN 0
               ELSE LET m == MaxId(Tail(rows))
                    IN IF rows[1].id > m THEN rows[1].id ELSE m

(***************************************************************************)
(* Inputs.                                                                 *)
(***************************************************************************)
Ann == <<"A", "n", "n">>
Prueba == <<"P", "r", "u", "e", "b", "a">>
\* What a user types into the contact form: Nombre, Email, Etiquetas.
ContactForms ==
    { [name |-> Ann, email |-> <<" ", "A", "@", "X">>, tags |-> <<"n", "a", "n">>],
      [name |-> <<>>, email |-> <<"a", "@", "x">>, tags |-> <<>>],
      [name |-> <<>>, email |-> <<" ">>, tags |-> <<>>],
      [name |-> Ann, email |-> <<>>, tags |-> <<>>] }
\* What a user types into the campaign form: Asunto, Contenido.
CampaignForms ==
    { [subject |-> <<"H", "i", " ">>, body |-> <<"H", "i", " ">> \o Token],
      [subject |-> <<" ">>, body |-> <<"H", "i", " ">> \o Token],
      [subject |-> <<>>, body |-> <<"H", "i", " ">> \o Token],
      [subject |-> <<"H", "i">>, body |-> <<>>] }
TestEmails == {<<>>, <<"t", "@", "x">>}
ErrTexts == {"Connection refused"}

VARIABLES
    SMTP_HOST, SMTP_USER, SMTP_PASS, FROM_EMAIL,  \* configuration
    contacts, campaigns, sends,                   \* the three tables
    contacts_df, campaigns_df, sends_df,          \* st.session_state
    report,                                       \* the counts the bulk send shows
    pc, campaign, recipients, i, ok, err, sent_ok,\* the bulk loop of page_send
    mark,                                         \* length of the log when the loop began
    deliveries,                                   \* the calls of the delivery adapter
    body_in, name_in, personalized                \* one rendering (SpecRender)

config == <<SMTP_HOST, SMTP_USER, SMTP_PASS, FROM_EMAIL>>
stores == <<contacts, campaigns, sends>>
session == <<contacts_df, campaigns_df, sends_df>>
bulk == <<pc, campaign, recipients, i, ok, err, sent_ok, mark>>
render == <<body_in, name_in, personalized>>
vars == <<config, stores, session, report, bulk, deliveries, render>>


(***************************************************************************)
(* Configuration (module level, read from the environment at start).       *)
(***************************************************************************)
Host == <<"h">>
User == <<"u">>
Pass == <<"p">>
Demo == <<"d", "e", "m", "o">>

\* The environments the process is started in: SMTP_HOST, SMTP_USER, SMTP_PASS
\* and FROM_EMAIL as os.getenv returns them (None when unset).
Environments ==
    { [host |-> None, user |-> None, pass |-> None, from |-> None],
      [host |-> Host, user |-> User, pass |-> Pass, from |-> None],
      [host |-> Host, user |-> None, pass |-> None, from |-> None] }

\* os.getenv("FROM_EMAIL", SMTP_USER or "demo@example.com")
FromEmail(env) ==
    IF env.from /= None THEN env.from
    ELSE IF Truthy(env.user) THEN env.user ELSE Demo

\* Simulation mode as the spec words it: no relay host, username, password.
NoRelayConfigured ==
    ~Truthy(SMTP_HOST) /\ ~Truthy(SMTP_USER) /\ ~Truthy(SMTP_PASS)

(***************************************************************************)
(* DB helpers.  A table is the sequence of its rows in rowid order.        *)
(***************************************************************************)
insert_contact_no_ignore(rows, name, email, tags) ==
    Append(rows, [id |-> MaxId(rows) + 1, name |-> Strip(name),
                  email |-> Lower(Strip(email)), tags |-> Strip(tags)])

\* INSERT OR IGNORE against the UNIQUE email column.
insert_contact(rows, name, email, tags) ==
    LET row == [id |-> MaxId(rows) + 1, name |-> Strip(name),
                email |-> Lower(Strip(email)), tags |-> Strip(tags)]
    IN IF \E k \in 1..Len(rows) : rows[k].email = row.email
       THEN rows
       ELSE Append(rows, row)

\* The loop of bulk_import_contacts: the table and the count after the rows of df.
RECURSIVE bulk_import_contacts(_, _, _)
bulk_import_contacts(rows, df, count) ==
    IF df = <<>> THEN [rows |-> rows, count |-> count]
    ELSE LET row == df[1]
             name == Strip(Str(row.name))
             email == Lower(Strip(Str(row.email)))
             tags == Strip(Str(row.tags))
         IN IF email /= <<>>
            THEN bulk_import_contacts(insert_contact(rows, name, email, tags),
                                      Tail(df), count + 1)
            ELSE bulk_import_contacts(rows, Tail(df), count)

insert_campaign(rows, subject, body) ==
    Append(rows, [id |-> MaxId(rows) + 1, subject |-> Strip(subject), body |-> body])

log_send_overwrite(rows, campaign_id, contact_id, email, status, error) ==
    LET row == [id |-> MaxId(rows) + 1, campaign_id |-> campaign_id,
                contact_id |-> contact_id, email |-> email,
                status |-> status, error |-> error]
    IN IF rows = <<>> THEN <<row>>
       ELSE [rows EXCEPT ![Len(rows)] = [row EXCEPT !.id = rows[Len(rows)].id]]

log_send(rows, campaign_id, contact_id, email, status, error) ==
    Append(rows, [id |-> MaxId(rows) + 1, campaign_id |-> campaign_id,
                  contact_id |-> contact_id, email |-> email,
                  status |-> status, error |-> error])

\* SELECT * FROM contacts ORDER BY id DESC  (and the same for campaigns)
SelectDesc(rows) == Reverse(rows)

SendsLimit == 500

SubjectOf(campaign_id) ==
    IF \E k \in 1..Len(campaigns) : campaigns[k].id = campaign_id
    THEN campaigns[CHOOSE k \in 1..Len(campaigns) : campaigns[k].id = campaign_id].subject
    ELSE None

\* SELECT s.id, s.status, s.error, s.email, c.subject FROM sends s
\* LEFT JOIN campaigns c ON s.campaign_id = c.id ORDER BY s.id DESC LIMIT 500
SelectSends(rows) ==
    LET n == IF Len(rows) < SendsLimit THEN Len(rows) ELSE SendsLimit
    IN [k \in 1..n |->
          LET s == rows[Len(rows) + 1 - k]
          IN [id |-> s.id, status |-> s.status, error |-> s.error,
              email |-> s.email, subject |-> SubjectOf(s.campaign_id)]]

(***************************************************************************)
(* Email sender.  The set of results one call can return.                  *)
(***************************************************************************)
send_email_smtp_no_simulation(to_email, subject, body_html) ==
    {[ok |-> TRUE, err |-> "", network |-> TRUE]}
    \cup {[ok |-> FALSE, err |-> e, network |-> TRUE] : e \in ErrTexts}

send_email_smtp(to_email, subject, body_html) ==
    IF ~(Truthy(SMTP_HOST) /\ Truthy(SMTP_USER) /\ Truthy(SMTP_PASS) /\ Truthy(FROM_EMAIL))
    THEN {[ok |-> TRUE, err |-> "SIMULATED", network |-> FALSE]}
    ELSE {[ok |-> TRUE, err |-> "", network |-> TRUE]}
         \cup {[ok |-> FALSE, err |-> e, network |-> TRUE] : e \in ErrTexts}

\* One call of the adapter as the network sees it.
Delivery(to_email, subject, body_html, res) ==
    [to |-> to_email, subject |-> subject, body |-> body_html,
     ok |-> res.ok, err |-> res.err, network |-> res.network]

StatusOfInverted(res_ok) == IF res_ok THEN "ERROR" ELSE "SENT"

\* status = "SENT" if ok else "ERROR"
StatusOf(res_ok) == IF res_ok THEN "SENT" ELSE "ERROR"


(***************************************************************************)
(* Inputs of the pages.                                                    *)
(***************************************************************************)
Pages == {"Contactos", "Campanas", "Enviar", "Logs"}

\* The CSV rows a user uploads (email, name, tags cells; NaN is an empty cell).
ImportRow1 == [name |-> Ann, email |-> <<"a", "@", "X", " ">>, tags |-> NaN]
ImportRow2 == [name |-> NaN, email |-> <<" ">>, tags |-> <<>>]

\* The uploads: empty, one row, a row twice, a row with a blank email.
DataFrames ==
    { <<>>, <<ImportRow1>>, <<ImportRow2>>, <<ImportRow1, ImportRow1>>,
      <<ImportRow2, ImportRow1>> }

RECURSIVE SeqsUpTo(_, _)
SeqsUpTo(S, n) ==
    IF n = 0 THEN {<<>>}
    ELSE LET shorter == SeqsUpTo(S, n - 1)
         IN shorter \cup {Append(q, x) : q \in shorter, x \in S}

Rows(df) == {df[k] : k \in 1..Len(df)}

\* What st.multiselect can return: rows of the options, each at most once, in the
\* order the user picked them.
Selections(options) ==
    {q \in SeqsUpTo(Rows(options), Len(options)) :
        \A a, b \in 1..Len(q) : a /= b => q[a] /= q[b]}

\* st.success of the bulk send: "Enviados OK: {sent_ok}/{len(recipients)}".
Report(n, total) == [shown |-> TRUE, sent_ok |-> n, total |-> total]
NoReport == [shown |-> FALSE, sent_ok |-> 0, total |-> 0]

NoCampaign == [id |-> NULL, subject |-> <<>>, body |-> <<>>]

\* The locals of the bulk handler outside a bulk send.
LoopIdle ==
    /\ pc = "idle"
    /\ campaign = NoCampaign
    /\ recipients = <<>>
    /\ i = 1
    /\ ok = FALSE
    /\ err = ""
    /\ sent_ok = 0
    /\ mark = 0

NoRender ==
    /\ body_in = <<>>
    /\ name_in = <<>>
    /\ personalized = <<>>

(***************************************************************************)
(* Init: the first script run on a fresh database; main() has created the  *)
(* tables and filled the session caches.                                   *)
(***************************************************************************)
Init ==
    /\ \E env \in Environments :
         /\ SMTP_HOST = env.host
         /\ SMTP_USER = env.user
         /\ SMTP_PASS = env.pass
         /\ FROM_EMAIL = FromEmail(env)
    /\ contacts = <<>>
    /\ campaigns = <<>>
    /\ sends = <<>>
    /\ contacts_df = SelectDesc(<<>>)
    /\ campaigns_df = SelectDesc(<<>>)
    /\ sends_df = SelectSends(<<>>)
    /\ report = NoReport
    /\ LoopIdle
    /\ deliveries = <<>>
    /\ NoRender

(***************************************************************************)
(* main(): a script run that only draws page p (the listings).             *)
(***************************************************************************)
Navigate(p) ==
    /\ pc = "idle"
    /\ campaigns_df' = IF p = "Campanas" THEN SelectDesc(campaigns) ELSE campaigns_df
    /\ report' = NoReport
    /\ UNCHANGED <<config, stores, contacts_df, sends_df, bulk, deliveries, render>>

(***************************************************************************)
(* page_contacts                                                           *)
(***************************************************************************)
AddContact(name, email, tags) ==
    /\ pc = "idle"
    /\ IF email = <<>>
       THEN UNCHANGED <<contacts, contacts_df>>
       ELSE /\ contacts' = insert_contact(contacts, name, email, tags)
            /\ Len(contacts') <= MaxContacts
            /\ contacts_df' = SelectDesc(contacts')
    /\ report' = NoReport
    /\ UNCHANGED <<config, campaigns, sends, campaigns_df, sends_df, bulk, deliveries, render>>

ImportContacts(df) ==
    /\ pc = "idle"
    /\ contacts' = bulk_import_contacts(contacts, df, 0).rows
    /\ Len(contacts') <= MaxContacts
    /\ contacts_df' = SelectDesc(contacts')
    /\ report' = NoReport
    /\ UNCHANGED <<config, campaigns, sends, campaigns_df, sends_df, bulk, deliveries, render>>

(***************************************************************************)
(* page_campaigns                                                          *)
(***************************************************************************)
CreateCampaign(subject, body) ==
    /\ pc = "idle"
    /\ IF subject /= <<>> /\ body /= <<>>
       THEN /\ Len(campaigns) < MaxCampaigns
            /\ campaigns' = insert_campaign(campaigns, subject, body)
       ELSE UNCHANGED campaigns
    /\ campaigns_df' = SelectDesc(campaigns')
    /\ report' = NoReport
    /\ UNCHANGED <<config, contacts, sends, contacts_df, sends_df, bulk, deliveries, render>>

(***************************************************************************)
(* page_send                                                               *)
(***************************************************************************)
\* The two early returns of page_send.
SendPageShown ==
    /\ pc = "idle"
    /\ campaigns_df /= <<>>
    /\ contacts_df /= <<>>

SendTestSkipLogOnError(c, test_email) ==
    /\ SendPageShown
    /\ c \in Rows(campaigns_df)
    /\ IF test_email /= <<>>
       THEN /\ Len(sends) < MaxSends
            /\ LET body == Render(c.body, Prueba)
               IN \E res \in send_email_smtp(test_email, c.subject, body) :
                    /\ deliveries' = Append(deliveries, Delivery(test_email, c.subject, body, res))
                    /\ sends' = IF res.ok
                                THEN log_send(sends, c.id, NULL, test_email, StatusOf(res.ok), res.err)
                                ELSE sends
            /\ sends_df' = SelectSends(sends')
       ELSE UNCHANGED <<sends, sends_df, deliveries>>
    /\ report' = NoReport
    /\ UNCHANGED <<config, contacts, campaigns, contacts_df, campaigns_df, bulk, render>>

\* "Enviar PRUEBA"
SendTest(c, test_email) ==
    /\ SendPageShown
    /\ c \in Rows(campaigns_df)
    /\ IF test_email /= <<>>
       THEN /\ Len(sends) < MaxSends
            /\ LET body == Render(c.body, Prueba)
               IN \E res \in send_email_smtp(test_email, c.subject, body) :
                    /\ deliveries' = Append(deliveries, Delivery(test_email, c.subject, body, res))
                    /\ sends' = log_send(sends, c.id, NULL, test_email, StatusOf(res.ok), res.err)
            /\ sends_df' = SelectSends(sends')
       ELSE UNCHANGED <<sends, sends_df, deliveries>>
    /\ report' = NoReport
    /\ UNCHANGED <<config, contacts, campaigns, contacts_df, campaigns_df, bulk, render>>

\* "Enviar a TODOS los seleccionados": the click; sent_ok = 0 and the loop is entered.
SendBulk(c, rs) ==
    /\ SendPageShown
    /\ c \in Rows(campaigns_df)
    /\ rs \in Selections(contacts_df)
    /\ Len(sends) + Len(rs) <= MaxSends
    /\ campaign' = c
    /\ recipients' = rs
    /\ i' = 1
    /\ sent_ok' = 0
    /\ mark' = Len(sends)
    /\ pc' = "loop"
    /\ report' = NoReport
    /\ UNCHANGED <<config, stores, session, ok, err, deliveries, render>>

\* for r in recipients: personalized = ...; ok, err = send_email_smtp(...)
BulkDeliver ==
    /\ pc = "loop"
    /\ i <= Len(recipients)
    /\ LET r == recipients[i]
           body == Render(campaign.body, IF Truthy(r.name) THEN r.name ELSE <<>>)
       IN \E res \in send_email_smtp(r.email, campaign.subject, body) :
            /\ deliveries' = Append(deliveries, Delivery(r.email, campaign.subject, body, res))
            /\ ok' = res.ok
            /\ err' = res.err
    /\ pc' = "log"
    /\ UNCHANGED <<config, stores, session, report, campaign, recipients, i, sent_ok, mark, render>>

BulkLogAbortOnError ==
    /\ pc = "log"
    /\ LET r == recipients[i]
       IN sends' = log_send(sends, campaign.id, r.id, r.email, StatusOf(ok), err)
    /\ sent_ok' = IF ok THEN sent_ok + 1 ELSE sent_ok
    /\ i' = IF ok THEN i + 1 ELSE Len(recipients) + 1
    /\ pc' = "loop"
    /\ UNCHANGED <<config, contacts, campaigns, session, report, campaign, recipients,
                   ok, err, mark, deliveries, render>>

BulkLogCountAll ==
    /\ pc = "log"
    /\ LET r == recipients[i]
       IN sends' = log_send(sends, campaign.id, r.id, r.email, StatusOf(ok), err)
    /\ sent_ok' = sent_ok + 1
    /\ i' = i + 1
    /\ pc' = "loop"
    /\ UNCHANGED <<config, contacts, campaigns, session, report, campaign, recipients,
                   ok, err, mark, deliveries, render>>

BulkLogReversed ==
    /\ pc = "log"
    /\ LET r == recipients[Len(recipients) + 1 - i]
       IN sends' = log_send(sends, campaign.id, r.id, r.email, StatusOf(ok), err)
    /\ sent_ok' = IF ok THEN sent_ok + 1 ELSE sent_ok
    /\ i' = i + 1
    /\ pc' = "loop"
    /\ UNCHANGED <<config, contacts, campaigns, session, report, campaign, recipients,
                   ok, err, mark, deliveries, render>>

\* status = ...; log_send(campaign.id, r.id, r.email, status, err); if ok: sent_ok += 1
BulkLog ==
    /\ pc = "log"
    /\ LET r == recipients[i]
       IN sends' = log_send(sends, campaign.id, r.id, r.email, StatusOf(ok), err)
    /\ sent_ok' = IF ok THEN sent_ok + 1 ELSE sent_ok
    /\ i' = i + 1
    /\ pc' = "loop"
    /\ UNCHANGED <<config, contacts, campaigns, session, report, campaign, recipients,
                   ok, err, mark, deliveries, render>>

\* After the loop: sends_df is read again, the counts are shown, the handler returns.
BulkFinish ==
    /\ pc = "loop"
    /\ i > Len(recipients)
    /\ sends_df' = SelectSends(sends)
    /\ report' = Report(sent_ok, Len(recipients))
    /\ pc' = "idle"
    /\ campaign' = NoCampaign
    /\ recipients' = <<>>
    /\ i' = 1
    /\ ok' = FALSE
    /\ err' = ""
    /\ sent_ok' = 0
    /\ mark' = 0
    /\ UNCHANGED <<config, stores, contacts_df, campaigns_df, deliveries, render>>

Next ==
    \/ \E p \in Pages : Navigate(p)
    \/ \E f \in ContactForms : AddContact(f.name, f.email, f.tags)
    \/ \E df \in DataFrames : ImportContacts(df)
    \/ \E f \in CampaignForms : CreateCampaign(f.subject, f.body)
    \/ \E c \in Rows(campaigns_df), test_email \in TestEmails : SendTest(c, test_email)
    \/ \E c \in Rows(campaigns_df), rs \in Selections(contacts_df) : SendBulk(c, rs)
    \/ BulkDeliver
    \/ BulkLog
    \/ BulkFinish

Spec == Init /\ [][Next]_vars


(***************************************************************************)
(* SpecRender: the rendering of one body for one name, as page_send does   *)
(* it for a recipient (r.name or "").                                      *)
(***************************************************************************)
Pieces == {Token, <<"{", "{", "n", "a">>, <<"m", "e", "}", "}">>, <<"x">>, Ann}

RECURSIVE Concat(_)
Concat(q) == IF q = <<>> THEN <<>> ELSE q[1] \o Concat(Tail(q))

RenderBodies == {Concat(q) : q \in SeqsUpTo(Pieces, MaxPieces)}
RenderNames == {<<>>, Ann}

InitRender ==
    /\ SMTP_HOST = None
    /\ SMTP_USER = None
    /\ SMTP_PASS = None
    /\ FROM_EMAIL = Demo
    /\ contacts = <<>>
    /\ campaigns = <<>>
    /\ sends = <<>>
    /\ contacts_df = <<>>
    /\ campaigns_df = <<>>
    /\ sends_df = <<>>
    /\ report = NoReport
    /\ LoopIdle
    /\ deliveries = <<>>
    /\ body_in \in RenderBodies
    /\ name_in \in RenderNames
    /\ personalized = None

RenderBody ==
    /\ personalized = None
    /\ personalized' = Render(body_in, IF Truthy(name_in) THEN name_in ELSE <<>>)
    /\ UNCHANGED <<config, stores, session, report, bulk, deliveries, body_in, name_in>>

NextRender == RenderBody

SpecRender == InitRender /\ [][NextRender]_vars

(***************************************************************************)
(* Properties.                                                             *)
(***************************************************************************)
N == Len(recipients)
InBulk == pc /= "idle"
LoopDone == pc = "loop" /\ i > N

\* The last n entries of a sequence.
LastN(q, n) == SubSeq(q, Len(q) - n + 1, Len(q))

IsPrefix(p, q) == Len(p) <= Len(q) /\ SubSeq(q, 1, Len(p)) = p

\* C1: a bulk send over N recipients appends exactly N SendRecords, one per
\* recipient, whatever the adapter returns: while the loop runs the log has
\* grown by one record for each recipient already handled, failed or not, and
\* the loop is left only after recipient N, with exactly N new records.
C1_ExactlyNRecords ==
    InBulk =>
        /\ i \in 1..(N + 1)
        /\ Len(sends) = mark + (i - 1)
        /\ \A k \in 1..(i - 1) : sends[mark + k].contact_id = recipients[k].id
        /\ LoopDone => Len(sends) = mark + N

C1_Witness ==
    /\ LoopDone
    /\ N = 2
    /\ sends[mark + 1].status = "ERROR"
    /\ sends[mark + 2].status = "SENT"

\* C2: the success count shown at the end of a bulk send over N recipients is
\* at most N, is the number of recipients the adapter returned success for, and
\* is the number of SENT records among the N records the bulk send appended;
\* the other N - count records are ERROR.
C2_SuccessCount ==
    report.shown =>
        /\ report.total <= Len(sends)
        /\ report.total <= Len(deliveries)
        /\ LET recs == LastN(sends, report.total)
               dels == LastN(deliveries, report.total)
           IN /\ report.sent_ok <= report.total
              /\ report.sent_ok = Cardinality({k \in 1..report.total : dels[k].ok})
              /\ report.sent_ok = Cardinality({k \in 1..report.total : recs[k].status = "SENT"})
              /\ report.total - report.sent_ok
                   = Cardinality({k \in 1..report.total : recs[k].status = "ERROR"})

C2_Witness ==
    /\ report.shown
    /\ report.total = 2
    /\ report.sent_ok = 1

\* C3: deliveries are attempted one at a time in recipient order; the record
\* of recipient i is written after attempt i has returned and before attempt
\* i+1 starts; the records are in the log by increasing id in the order of the
\* recipients, each with that recipient's contact id and email.
C3_OrderedOneAtATime ==
    /\ Len(deliveries) = Len(sends) + (IF pc = "log" THEN 1 ELSE 0)
    /\ \A k \in 1..(Len(sends) - 1) : sends[k].id < sends[k + 1].id
    /\ InBulk =>
         /\ \A k \in 1..(Len(sends) - mark) :
              /\ k <= N
              /\ sends[mark + k].contact_id = recipients[k].id
              /\ sends[mark + k].email = recipients[k].email
              /\ sends[mark + k].campaign_id = campaign.id
              /\ deliveries[mark + k].to = recipients[k].email
         /\ pc = "loop" => Len(sends) - mark = i - 1
         /\ pc = "log" => /\ Len(sends) - mark = i - 1
                          /\ Last(deliveries).to = recipients[i].email

C3_Witness ==
    /\ pc = "log"
    /\ N = 2
    /\ i = 2
    /\ Len(sends) = mark + 1
    /\ Len(deliveries) = mark + 2
    /\ recipients[1].id > recipients[2].id

\* C4: a test send to a non-empty address calls the adapter exactly once and
\* appends exactly one record, with contact_id unset, the given address and the
\* selected campaign, whether the delivery succeeds or fails; a test send with
\* an empty address calls nothing and appends nothing.
C4_TestSend ==
    [][\A c \in Rows(campaigns_df), e \in TestEmails :
         SendTest(c, e) =>
            IF e /= <<>>
            THEN /\ Len(deliveries') = Len(deliveries) + 1
                 /\ IsPrefix(deliveries, deliveries')
                 /\ Last(deliveries').to = e
                 /\ Len(sends') = Len(sends) + 1
                 /\ IsPrefix(sends, sends')
                 /\ Last(sends').contact_id = NULL
                 /\ Last(sends').email = e
                 /\ Last(sends').campaign_id = c.id
            ELSE UNCHANGED <<sends, deliveries>>]_vars

C4_Witness ==
    \E k \in 1..Len(sends) :
        /\ sends[k].contact_id = NULL
        /\ sends[k].status = "ERROR"
        /\ sends[k].email = <<"t", "@", "x">>
        /\ deliveries[k].to = <<"t", "@", "x">>

\* C5: inserting a contact whose trimmed, lowercased email is already stored
\* changes nothing (same count, same name, tags and id of the stored contact),
\* and no two stored contacts ever have the same email.
C5_UniqueEmails ==
    \A a, b \in 1..Len(contacts) : a /= b => contacts[a].email /= contacts[b].email

C5_DuplicateIsNoOp ==
    [][/\ contacts' /= contacts =>
            \A f \in ContactForms :
               (\E k \in 1..Len(contacts) : contacts[k].email = Lower(Strip(f.email)))
               => ~AddContact(f.name, f.email, f.tags)
       /\ IsPrefix(contacts, contacts')
       /\ C5_UniqueEmails =>
             \A a, b \in 1..Len(contacts') :
                a /= b => contacts'[a].email /= contacts'[b].email]_vars

C5_Witness ==
    /\ Len(contacts) = 2
    /\ \E k \in 1..2 : contacts[k].email = <<"a", "@", "x">> /\ contacts[k].name = <<>>

\* C6: in simulation mode (no relay host, username and password) no delivery
\* attempt touches the network and each returns success, every record is SENT
\* and a bulk send over N recipients reports N.
C6_SimulationAllSent ==
    NoRelayConfigured =>
        /\ \A k \in 1..Len(deliveries) : deliveries[k].ok /\ ~deliveries[k].network
        /\ \A k \in 1..Len(sends) : sends[k].status = "SENT"
        /\ report.shown => report.sent_ok = report.total
        /\ InBulk => sent_ok = Len(sends) - mark

C6_Witness ==
    /\ NoRelayConfigured
    /\ report.shown
    /\ report.total = 2
    /\ report.sent_ok = 2
    /\ \A k \in 1..Len(deliveries) : ~deliveries[k].network

\* C7 as claimed: every record is SENT or ERROR and the error text of a SENT
\* record is empty, in relay and in simulation mode.
C7_ErrorEmptyOnSent ==
    \A k \in 1..Len(sends) :
        /\ sends[k].status \in {"SENT", "ERROR"}
        /\ sends[k].status = "SENT" => sends[k].error = ""

\* C7 amended: every record is SENT or ERROR; the error text of a SENT record
\* is empty when the delivery went through the relay and is the marker
\* "SIMULATED" when the delivery was simulated; an ERROR record is written only
\* for a failed relay delivery and carries the adapter's error detail.
C7_ErrorTextByMode ==
    \A k \in 1..Len(sends) :
        /\ sends[k].status \in {"SENT", "ERROR"}
        /\ sends[k].status = "SENT" =>
             /\ deliveries[k].ok
             /\ sends[k].error = IF deliveries[k].network THEN "" ELSE "SIMULATED"
        /\ sends[k].status = "ERROR" =>
             /\ ~deliveries[k].ok
             /\ deliveries[k].network
             /\ sends[k].error = deliveries[k].err

C7_Witness ==
    \E k \in 1..Len(sends) :
        /\ sends[k].status = "SENT"
        /\ sends[k].error = "SIMULATED"
        /\ sends[k].contact_id /= NULL

RECURSIVE SubstFrom(_, _, _)
SubstFrom(body, new, k) ==
    IF k > Len(body) THEN <<>>
    ELSE LET occ == Occurrences(body, Token)
             piece == IF k \in occ THEN new
                      ELSE IF \E o \in occ : o < k /\ k < o + Len(Token) THEN <<>>
                      ELSE <<body[k]>>
         IN piece \o SubstFrom(body, new, k + 1)

Rendered == personalized /= None
HasToken(s) == Occurrences(s, Token) /= {}

\* C9 as claimed: for a body with the token, rendering with "Ann" and rendering
\* with an empty name both leave zero occurrences of the token, every
\* occurrence being replaced; a body without the token is returned unchanged.
C9_NoTokenLeft ==
    Rendered =>
        /\ personalized = SubstFrom(body_in, name_in, 1)
        /\ ~HasToken(personalized)
        /\ ~HasToken(body_in) => personalized = body_in

\* C9 amended: rendering replaces every occurrence of the token found in the
\* body (by "Ann", or by nothing for an empty name); with "Ann" zero occurrences
\* remain; with an empty name the token is gone unless the text around a
\* removed occurrence joins into the token; a body without the token is
\* returned unchanged.
C9_EveryOccurrenceReplaced ==
    Rendered =>
        /\ personalized = SubstFrom(body_in, name_in, 1)
        /\ name_in = Ann => ~HasToken(personalized)
        /\ (name_in = <<>> /\ HasToken(personalized)) =>
              \E o \in Occurrences(body_in, Token) :
                 /\ o > 1
                 /\ o + Len(Token) <= Len(body_in)
        /\ Len(personalized) = Len(body_in)
              + Cardinality(Occurrences(body_in, Token)) * (Len(name_in) - Len(Token))
        /\ ~HasToken(body_in) => personalized = body_in

C9_Witness ==
    /\ Rendered
    /\ name_in = Ann
    /\ Cardinality(Occurrences(body_in, Token)) = 2
    /\ personalized = Ann \o <<"x">> \o Ann

\* C10: a stored contact has a non-empty, trimmed, lowercase email and a
\* stored campaign has a non-empty subject and body, the requests without them
\* having been rejected before any store write.
C10_RequiredFieldsStored ==
    /\ \A k \in 1..Len(contacts) :
         /\ contacts[k].email /= <<>>
         /\ contacts[k].email = Lower(Strip(contacts[k].email))
    /\ \A k \in 1..Len(campaigns) :
         /\ campaigns[k].subject /= <<>>
         /\ campaigns[k].body /= <<>>

====
